---- MODULE Spec2Model ----
(***************************************************************************)
(* Model of the wildfire-analyser fire-assessment code:                    *)
(*   post_fire_assessment.py  PostFireAssessment (severity, area, merge,   *)
(*                            constructor, run_analysis)                   *)
(*   downloaders.py           download_single_band                         *)
(*   mosaic_strategies.py     apply_mosaic_strategy and its strategies     *)
(*   time_windows.py          compute_fire_time_windows                    *)
(*                                                                         *)
(* The components share no state, so each has its own variables and its   *)
(* own specification (SpecSeverity, SpecDownload, SpecMerge, SpecRgb,      *)
(* SpecCompositing, SpecDeliverables, SpecTimeWindows); a component's      *)
(* actions leave the other components' variables unchanged.                *)
(*                                                                         *)
(* Numbers.  Index values (NBR, RBR) are exact rationals: an NBR is an     *)
(* integer number of thousandths, an RBR is a pair num/den with den > 0.   *)
(* Comparisons with the thresholds are done by cross-multiplication, so    *)
(* no rounding is introduced by the model.  Areas are integers in m^2      *)
(* (1 ha = 10000 m^2).                                                     *)
(***************************************************************************)
EXTENDS Integers, Sequences, FiniteSets, TLC

VARIABLES
    \* ---- severity pipeline (post_fire_assessment.py 246-300) ----
    sev_pc,        \* "start" | "rbr" | "classified" | "aggregated"
    before_nbr,    \* band 'nbr' of the before mosaic, per pixel
    after_nbr,     \* band 'nbr' of the after mosaic, per pixel
    rbr_img,       \* band 'rbr', per pixel
    severity_img,  \* band 'severity', per pixel
    reduce_reply,  \* what reduceRegion(...).getInfo() returned
    area_stats,    \* the dict returned by _compute_area_by_severity
    \* ---- download_single_band (downloaders.py 9-61) ----
    dl_pc,         \* "idle" | "done"
    dl_call,       \* the arguments of the call: band_name, scale
    dl_count,      \* what the pixel-count query returned
    dl_requests,   \* the requests sent to the provider, in order
    dl_result,     \* "none" | "bytes" | "error"
    \* ---- merge_bands (post_fire_assessment.py 100-125) ----
    mg_pc,         \* "idle" | "done"
    mg_input,      \* band_tiffs: the (name, bytes) items in iteration order
    mg_result,     \* the merged raster, or the exception that was raised
    \* ---- _generate_rgb (post_fire_assessment.py 133-161) ----
    rgb_pc,        \* "idle" | "done"
    rgb_counts,    \* what the pixel-count query of each band returned
    rgb_requests,  \* the requests sent to the provider, in order
    rgb_result,    \* the merged RGB raster, or the exception that was raised
    \* ---- apply_mosaic_strategy (mosaic_strategies.py 46-240) ----
    ms_pc,         \* "idle" | "done"
    ms_call,       \* the arguments: collection, strategy, cloud_threshold
    ms_dispatched, \* the strategy functions apply_mosaic_strategy called
    ms_filtered,   \* the scenes the strategy works on, after its cloud filter
    ms_result,     \* the composite, or the error
    \* ---- PostFireAssessment (post_fire_assessment.py 30-57, 302-323) ----
    pfa_pc,        \* "new" | "constructed" | "raised" | "analysed" | "aborted"
    pfa_args,      \* the constructor's arguments
    gee_initialized,   \* GEEClient() has been created
    roi_loaded,        \* self.roi has been set
    pfa_error,     \* the exception raised, "none" if none
    gee_catalogue,     \* the scenes of the dataset that intersect the ROI
    full_collection,   \* what _load_full_collection returned
    before_collection, \* the before window of it
    after_collection,  \* the after window of it
    before_mosaic, \* the before composite
    after_mosaic,  \* the after composite
    gee_downloads_ok,  \* the provider serves the downloads of the run
    images,        \* the "images" mapping run_analysis returns
    \* ---- compute_fire_time_windows (time_windows.py 8-22) ----
    tw_pc,         \* "idle" | "done"
    tw_args,       \* the arguments: start_date, end_date, buffer_days
    tw_windows     \* the tuple returned

sevVars == <<sev_pc, before_nbr, after_nbr, rbr_img, severity_img,
             reduce_reply, area_stats>>

dlVars == <<dl_pc, dl_call, dl_count, dl_requests, dl_result>>

mgVars == <<mg_pc, mg_input, mg_result>>

rgbVars == <<rgb_pc, rgb_counts, rgb_requests, rgb_result>>

msVars == <<ms_pc, ms_call, ms_dispatched, ms_filtered, ms_result>>

pfaVars == <<pfa_pc, pfa_args, gee_initialized, roi_loaded, pfa_error,
             gee_catalogue, full_collection, before_collection, after_collection,
             before_mosaic, after_mosaic, gee_downloads_ok, images>>

twVars == <<tw_pc, tw_args, tw_windows>>

vars == <<sevVars, dlVars, mgVars, rgbVars, msVars, pfaVars, twVars>>

\* what a component's steps leave alone
SeverityOnly == UNCHANGED <<dlVars, mgVars, rgbVars, msVars, pfaVars, twVars>>
DownloadOnly == UNCHANGED <<sevVars, mgVars, rgbVars, msVars, pfaVars, twVars>>
MergeOnly == UNCHANGED <<sevVars, dlVars, rgbVars, msVars, pfaVars, twVars>>
RgbOnly == UNCHANGED <<sevVars, dlVars, mgVars, msVars, pfaVars, twVars>>
MosaicOnly == UNCHANGED <<sevVars, dlVars, mgVars, rgbVars, pfaVars, twVars>>
AssessmentOnly == UNCHANGED <<sevVars, dlVars, mgVars, rgbVars, msVars, twVars>>
TimeWindowsOnly == UNCHANGED <<sevVars, dlVars, mgVars, rgbVars, msVars, pfaVars>>

\* ------------------------------------------------------------- bounds
\* number of pixels of the ROI raster
NumPixels == 2

Pixels == 1..NumPixels

\* ------------------------------------------------------------ rasters
\* A masked pixel carries no value; valid = FALSE stands for the mask.
MaskedNbr == [valid |-> FALSE, v |-> 0]
Nbr(v) == [valid |-> TRUE, v |-> v]
MaskedRbr == [valid |-> FALSE, num |-> 0, den |-> 1]
Rbr(n, d) == [valid |-> TRUE, num |-> n, den |-> d]
MaskedClass == [valid |-> FALSE, cls |-> 0]
Class(c) == [valid |-> TRUE, cls |-> c]

\* an image that has not been computed yet
NoImage == [p \in Pixels |-> [valid |-> FALSE]]
NoReply == [c \in {} |-> 0]

\* NBR inputs, in thousandths (0.5 is 500); NBR lies in [-1, 1]
NbrInputs == {Nbr(-1000), Nbr(100), Nbr(500), MaskedNbr}

\* RBR inputs for a direct call of _classify_rbr_severity, in thousandths:
\* each threshold, its two neighbours, and values far from all of them
RbrGrid == {-1000, 0, 99, 100, 101, 269, 270, 271, 439, 440, 441,
            659, 660, 661, 1000, 2000}
RbrInputs == {Rbr(v, 1000) : v \in RbrGrid} \cup {MaskedRbr}

\* ------------------------------------------------------- _compute_rbr
\* the numerical-stability offset 1.001, in thousandths
RBR_OFFSET == 1001

\* faulty variant: the denominator is before.nbr + 1 (offset 1.001 lost)
compute_rbr_pixel_no_offset(b, a) ==
    IF b.valid /\ a.valid
    THEN Rbr(b.v - a.v, b.v + 1000)
    ELSE MaskedRbr

\* delta_nbr = before.nbr - after.nbr ; rbr = delta_nbr / (before.nbr + 1.001)
\* a pixel masked in either mosaic is masked in the result
compute_rbr_pixel(b, a) ==
    IF b.valid /\ a.valid
    THEN Rbr(b.v - a.v, b.v + RBR_OFFSET)
    ELSE MaskedRbr

compute_rbr(before, after) ==
    [p \in Pixels |-> compute_rbr_pixel(before[p], after[p])]

\* --------------------------------------------- _classify_rbr_severity
\* the thresholds 0.10, 0.27, 0.44, 0.66 in hundredths
T_LOW == 10
T_MODERATE == 27
T_HIGH == 44
T_VERY_HIGH == 66

\* num/den < t/100, den > 0
RbrLess(r, t) == r.num * 100 < t * r.den

\* faulty variant: the comparisons are <= instead of <
classify_rbr_pixel_le(r) ==
    IF ~r.valid THEN MaskedClass
    ELSE IF r.num * 100 <= T_LOW * r.den THEN Class(0)
    ELSE IF r.num * 100 <= T_MODERATE * r.den THEN Class(1)
    ELSE IF r.num * 100 <= T_HIGH * r.den THEN Class(2)
    ELSE IF r.num * 100 <= T_VERY_HIGH * r.den THEN Class(3)
    ELSE Class(4)

\* the nested conditional expression; a masked pixel stays masked
classify_rbr_pixel(r) ==
    IF ~r.valid THEN MaskedClass
    ELSE IF RbrLess(r, T_LOW) THEN Class(0)
    ELSE IF RbrLess(r, T_MODERATE) THEN Class(1)
    ELSE IF RbrLess(r, T_HIGH) THEN Class(2)
    ELSE IF RbrLess(r, T_VERY_HIGH) THEN Class(3)
    ELSE Class(4)

classify_rbr_severity(img) == [p \in Pixels |-> classify_rbr_pixel(img[p])]

\* ------------------------------------------ _compute_area_by_severity
\* range(5)
NUM_CLASSES == 5
Classes == 0..(NUM_CLASSES - 1)

\* ee.Image.pixelArea() at the 10 m scale: 100 m^2 per pixel
PIXEL_AREA_M2 == 100

RECURSIVE SumOver(_, _)
SumOver(S, f) ==
    IF S = {} THEN 0
    ELSE LET x == CHOOSE y \in S : TRUE
         IN f[x] + SumOver(S \ {x}, f)

\* faulty variant: the class mask is severity >= c instead of severity == c
area_per_class_gte(sev, c) ==
    [p \in Pixels |-> IF sev[p].valid /\ sev[p].cls >= c THEN PIXEL_AREA_M2 ELSE 0]

\* pixel_area_ha.updateMask(severity_img.eq(c)): the pixel's area where the
\* class is c, nothing (0 in the sum) where it is not or the pixel is masked
area_per_class(sev, c) ==
    [p \in Pixels |-> IF sev[p].valid /\ sev[p].cls = c THEN PIXEL_AREA_M2 ELSE 0]

ClassPresent(sev, c) == \E p \in Pixels : sev[p].valid /\ sev[p].cls = c

\* One band of the reduceRegion reply: the key may be absent from the dict,
\* or map to None, or to a number.
Missing == [present |-> FALSE, null |-> FALSE, sum |-> 0]
Null == [present |-> TRUE, null |-> TRUE, sum |-> 0]
Number(n) == [present |-> TRUE, null |-> FALSE, sum |-> n]

\* what the provider may report for band area_c
ReplyOptions(sev, c) ==
    IF ClassPresent(sev, c)
    THEN {Number(SumOver(Pixels, area_per_class(sev, c)))}
    ELSE {Missing, Null, Number(0)}

RECURSIVE RepliesFrom(_, _)
RepliesFrom(sev, c) ==
    IF c = NUM_CLASSES THEN {<<>>}
    ELSE {<<o>> \o rest : o \in ReplyOptions(sev, c), rest \in RepliesFrom(sev, c + 1)}

\* stacked.reduceRegion(sum, roi).getInfo(): a band with pixels reports
\* their summed area; a band with no unmasked pixel reports 0, None or
\* no key at all, as the provider chooses
ReduceReplies(sev) ==
    {[c \in Classes |-> s[c + 1]] : s \in RepliesFrom(sev, 0)}

\* float(areas.get(key, 0) or 0)
get_or_zero(entry) ==
    IF ~entry.present THEN 0
    ELSE IF entry.null THEN 0
    ELSE entry.sum

compute_area_by_severity(reply) == [c \in Classes |-> get_or_zero(reply[c])]

SeverityIdle ==
    /\ sev_pc = "start"
    /\ before_nbr = NoImage
    /\ after_nbr = NoImage
    /\ rbr_img = NoImage
    /\ severity_img = NoImage
    /\ reduce_reply = NoReply
    /\ area_stats = NoReply

\* ================================================ download_single_band
MAX_MB == 50
MAX_BYTES == MAX_MB * 1024 * 1024
\* 4 bytes per pixel for float32 GeoTIFF
BYTES_PER_PIXEL == 4
\* the scale that is downgraded, and the scale it is downgraded to
FINEST_SCALE == 10
COARSE_SCALE == 50

\* reduceRegion(count).get(band).getInfo(): None or a number of pixels
NoCount == [known |-> FALSE, n |-> 0]
Count(n) == [known |-> TRUE, n |-> n]

BandNames == {"B4_refl", "B3_refl", "B2_refl", "ndvi", "rbr"}
Scales == {10, 20, 50}
\* 13107200 pixels are exactly MAX_BYTES
PixelCounts == {NoCount, Count(0), Count(1000000), Count(13107199),
                Count(13107200), Count(13107201), Count(20000000)}

CountRequest(band, scale) == [op |-> "count", band |-> band, scale |-> scale]
DownloadRequest(band, scale) == [op |-> "download", band |-> band, scale |-> scale]

\* faulty variant: est_bytes >= MAX_BYTES
choose_scale_ge(pixel_count, scale) ==
    IF pixel_count * BYTES_PER_PIXEL >= MAX_BYTES /\ scale = FINEST_SCALE
    THEN COARSE_SCALE
    ELSE scale

\* est_bytes = pixel_count * 4
\* if est_bytes > MAX_BYTES and scale == 10: scale = 50
choose_scale(pixel_count, scale) ==
    IF pixel_count * BYTES_PER_PIXEL > MAX_BYTES /\ scale = FINEST_SCALE
    THEN COARSE_SCALE
    ELSE scale

DownloadIdle ==
    /\ dl_pc = "idle"
    /\ dl_call = [band |-> "", scale |-> 0]
    /\ dl_count = NoCount
    /\ dl_requests = <<>>
    /\ dl_result = "none"

\* One call of download_single_band(image, band, region, scale): the pixel
\* count is queried once at the requested scale; None raises before any
\* download; otherwise one download is requested at the chosen scale, and
\* an HTTP error status raises.  Every exception is logged and re-raised.
DownloadSingleBand(band, scale, count, http_ok) ==
    /\ dl_call' = [band |-> band, scale |-> scale]
    /\ dl_count' = count
    /\ IF ~count.known
       THEN /\ dl_requests' = <<CountRequest(band, scale)>>
            /\ dl_result' = "error"
       ELSE /\ dl_requests' = <<CountRequest(band, scale),
                                DownloadRequest(band, choose_scale(count.n, scale))>>
            /\ dl_result' = IF http_ok THEN "bytes" ELSE "error"
    /\ dl_pc' = "done"
    /\ DownloadOnly

CallDownloadSingleBand ==
    /\ dl_pc = "idle"
    /\ \E band \in BandNames, scale \in Scales, count \in PixelCounts,
          http_ok \in BOOLEAN :
            DownloadSingleBand(band, scale, count, http_ok)

\* ========================================================= merge_bands
\* the largest number of items of band_tiffs
MaxBands == 3

MergeNames == {"B4_refl", "B3_refl", "B2_refl", "B8_refl"}
\* pixel dimensions, affine transform and coordinate reference system
Shapes == {"100x100", "20x20"}
Transforms == {"origin_a", "origin_b"}
CrsCodes == {"EPSG:32722", "EPSG:4326"}

\* What MemoryFile(tiff_bytes).open() finds in the bytes of one item: an
\* undecodable file, or a single-band raster.  data names the pixels of
\* band 1; the pixels of an item are identified by the item's name.
Undecodable(name) ==
    [ok |-> FALSE, shape |-> "", transform |-> "", crs |-> "", data |-> name]
Tiff(name, shape, transform, crs) ==
    [ok |-> TRUE, shape |-> shape, transform |-> transform, crs |-> crs, data |-> name]

\* a choice of file content, for whichever name it is stored under
TiffChoices ==
    {[name \in MergeNames |-> Undecodable(name)]} \cup
    {[name \in MergeNames |-> Tiff(name, sh, tr, crs)] :
        sh \in Shapes, tr \in Transforms, crs \in CrsCodes}

Item(name, tiff) == [name |-> name, tiff |-> tiff]

\* a dict's keys are distinct
DistinctNames(names) ==
    \A i, j \in DOMAIN names : i # j => names[i] # names[j]

\* the dict {names[1]: tiffs[1], ...} in iteration order
BandTiffs(names, tiffs) ==
    [i \in DOMAIN names |-> Item(names[i], tiffs[i][names[i]])]

MergeError(kind) ==
    [ok |-> FALSE, error |-> kind, profile |-> [count |-> 0], bands |-> <<>>]
Merged(profile, bands) ==
    [ok |-> TRUE, error |-> "none", profile |-> profile, bands |-> bands]

\* first = next(iter(datasets.values())); profile = first.profile.copy()
\* profile.update(count=len(datasets))
merge_profile(band_tiffs) ==
    [shape |-> band_tiffs[1].tiff.shape,
     transform |-> band_tiffs[1].tiff.transform,
     crs |-> band_tiffs[1].tiff.crs,
     count |-> Len(band_tiffs)]

\* faulty variant: the datasets are written in reverse iteration order
merge_written_reversed(band_tiffs) ==
    [idx \in 1..Len(band_tiffs) |->
        LET src == band_tiffs[Len(band_tiffs) + 1 - idx].tiff
        IN [data |-> src.data,
            resampled |-> src.shape # band_tiffs[1].tiff.shape]]

\* for idx, (band, ds) in enumerate(datasets.items(), start=1):
\*     dst.write(ds.read(1), idx)
\* Band idx of the output receives the pixels of the idx-th item.  An array
\* whose shape is not the output's does not fit it pixel for pixel: if the
\* write is accepted, the band holds the array rescaled to the output grid.
merge_written(band_tiffs) ==
    [idx \in 1..Len(band_tiffs) |->
        LET src == band_tiffs[idx].tiff
        IN [data |-> src.data,
            resampled |-> src.shape # band_tiffs[1].tiff.shape]]

\* The outcomes of merge_bands(band_tiffs).  The function checks nothing
\* itself: it fails where the raster library raises (logged, re-raised).
\*  - no item: next(iter(...)) raises StopIteration;
\*  - an undecodable item: open() raises;
\*  - an item of other pixel dimensions than the first: the write of that
\*    array into the output either raises or is accepted with rescaling,
\*    depending on the raster library; both outcomes are kept;
\*  - transform and crs of the items after the first are never read.
merge_bands(band_tiffs) ==
    IF Len(band_tiffs) = 0 THEN {MergeError("empty")}
    ELSE IF \E i \in DOMAIN band_tiffs : ~band_tiffs[i].tiff.ok
    THEN {MergeError("decode")}
    ELSE IF \E i \in DOMAIN band_tiffs :
                band_tiffs[i].tiff.shape # band_tiffs[1].tiff.shape
    THEN {MergeError("write"),
          Merged(merge_profile(band_tiffs), merge_written(band_tiffs))}
    ELSE {Merged(merge_profile(band_tiffs), merge_written(band_tiffs))}

MergeIdle ==
    /\ mg_pc = "idle"
    /\ mg_input = <<>>
    /\ mg_result = MergeError("none")

\* one call of merge_bands, with a dict of at most MaxBands items
MergeBands ==
    /\ mg_pc = "idle"
    /\ \E n \in 0..MaxBands :
        \E names \in [1..n -> MergeNames], tiffs \in [1..n -> TiffChoices] :
            /\ DistinctNames(names)
            /\ \E result \in merge_bands(BandTiffs(names, tiffs)) :
                /\ mg_input' = BandTiffs(names, tiffs)
                /\ mg_result' = result
                /\ mg_pc' = "done"
                /\ MergeOnly

\* ======================================================= _generate_rgb
\* the bands of the RGB deliverable, in download order
RgbBands == <<"B4_refl", "B3_refl", "B2_refl">>
RgbBandNames == {RgbBands[i] : i \in DOMAIN RgbBands}

\* download_single_band(image, band_name, region, scale) as a function of
\* the provider's answers: the requests it sends, the scale it downloads at
\* and whether it returns bytes or raises
download_single_band(band, scale, count, http_ok) ==
    IF ~count.known
    THEN [ok |-> FALSE, scale |-> scale,
          requests |-> <<CountRequest(band, scale)>>]
    ELSE [ok |-> http_ok, scale |-> choose_scale(count.n, scale),
          requests |-> <<CountRequest(band, scale),
                         DownloadRequest(band, choose_scale(count.n, scale))>>]

\* the raster a download of the ROI at a scale returns: the pixel
\* dimensions follow from the scale ("100x100" names the 10 m grid of the
\* ROI, "20x20" its 50 m grid), origin and CRS are the ROI's
shape_at(scale) == IF scale = COARSE_SCALE THEN "20x20" ELSE "100x100"
downloaded_tiff(band, scale) ==
    Tiff(band, shape_at(scale), "origin_a", "EPSG:32722")

\* b4 = download_single_band(rgb_image, 'B4_refl', region=self.roi), then
\* b3, then b2: each call makes its own pixel-count query at the default
\* scale; the first call that raises ends _generate_rgb
RECURSIVE download_bands(_, _, _)
download_bands(bands, counts, http_ok) ==
    IF bands = <<>>
    THEN [ok |-> TRUE, requests |-> <<>>, tiffs |-> <<>>]
    ELSE LET band == Head(bands)
             d == download_single_band(band, FINEST_SCALE, counts[band],
                                       http_ok[band])
             rest == download_bands(Tail(bands), counts, http_ok)
         IN IF ~d.ok
            THEN [ok |-> FALSE, requests |-> d.requests, tiffs |-> <<>>]
            ELSE [ok |-> rest.ok,
                  requests |-> d.requests \o rest.requests,
                  tiffs |-> <<Item(band, downloaded_tiff(band, d.scale))>>
                                \o rest.tiffs]

RgbIdle ==
    /\ rgb_pc = "idle"
    /\ rgb_counts = <<>>
    /\ rgb_requests = <<>>
    /\ rgb_result = MergeError("none")

\* one call of _generate_rgb(mosaic, filename_prefix): three downloads,
\* then merge_bands on the three byte strings
GenerateRgb(counts, http_ok) ==
    LET downloads == download_bands(RgbBands, counts, http_ok)
    IN /\ rgb_counts' = counts
       /\ rgb_requests' = downloads.requests
       /\ IF downloads.ok
          THEN \E result \in merge_bands(downloads.tiffs) :
                    rgb_result' = result
          ELSE rgb_result' = MergeError("download")
       /\ rgb_pc' = "done"
       /\ RgbOnly

CallGenerateRgb ==
    /\ rgb_pc = "idle"
    /\ \E counts \in [RgbBandNames -> PixelCounts],
          http_ok \in [RgbBandNames -> BOOLEAN] :
            GenerateRgb(counts, http_ok)

\* ============================================= scenes and collections
\* the largest number of scenes of a collection
MaxScenes == 3

\* A scene: system:time_start in hours (day * 24 + hour of the day, day 0
\* being 2024-09-01), CLOUDY_PIXEL_PERCENTAGE and MGRS_TILE.
HOURS_PER_DAY == 24
Timestamp(day, hour) == day * HOURS_PER_DAY + hour
\* 2024-09-05 10:00, 2024-09-12 10:00 and 2024-09-12 13:00
Timestamps == {Timestamp(4, 10), Timestamp(11, 10), Timestamp(11, 13)}
CloudPercentages == {10, 15, 80, 100}
Tiles == {"A", "B"}
Scenes == [ts : Timestamps, cloud : CloudPercentages, tile : Tiles]

\* the collections of at most MaxScenes scenes
RECURSIVE CollectionsUpTo(_)
CollectionsUpTo(n) ==
    IF n = 0 THEN {{}}
    ELSE LET smaller == CollectionsUpTo(n - 1)
         IN smaller \cup {c \cup {s} : c \in smaller, s \in Scenes}
Collections == CollectionsUpTo(MaxScenes)

\* ee.Date(...).format("YYYY-MM-dd"): the day of the timestamp
FormatDate(ts) == ts \div HOURS_PER_DAY

\* collection.filterDate(start, end): start <= time_start < end, the dates
\* being days at 00:00
filterDate(collection, start, end) ==
    {s \in collection :
        Timestamp(start, 0) <= s.ts /\ s.ts < Timestamp(end, 0)}

\* collection.sort("CLOUDY_PIXEL_PERCENTAGE").first(): a scene of the least
\* cloud percentage; which one of several is the provider's choice
LeastCloudy(collection) ==
    {s \in collection : \A t \in collection : s.cloud <= t.cloud}

\* ================================================== mosaic strategies
\* context.inputs.get("cloud_threshold"): None or a number
NoThreshold == [set |-> FALSE, v |-> 0]
Threshold(v) == [set |-> TRUE, v |-> v]
CloudThresholds == {NoThreshold, Threshold(15)}

\* if cloud_threshold is not None:
\*     filtered = filtered.filter(ee.Filter.lte("CLOUDY_PIXEL_PERCENTAGE", ...))
filter_cloud_threshold(collection, cloud_threshold) ==
    IF cloud_threshold.set
    THEN {s \in collection : s.cloud <= cloud_threshold.v}
    ELSE collection

\* A strategy's result: the scenes the composite is made of, how they are
\* combined, and the SCL categories masked out of it; or the error.
Composite(scenes, method, masked_scl) ==
    [ok |-> TRUE, error |-> "none", scenes |-> scenes, method |-> method,
     masked_scl |-> masked_scl]
StrategyError(kind) ==
    [ok |-> FALSE, error |-> kind, scenes |-> {}, method |-> "none",
     masked_scl |-> {}]

\* faulty variant: the sensing date is the untruncated timestamp
sensing_date_untruncated(image) == image.ts

\* add_date: image.set("sensing_date", date formatted as YYYY-MM-dd)
sensing_date(image) == FormatDate(image.ts)

\* best_date_mosaic(collection, context).  first() of an empty collection
\* yields no image, and reading its sensing_date fails: the composite
\* cannot be evaluated.
best_date_mosaic(collection, cloud_threshold) ==
    LET filtered == filter_cloud_threshold(collection, cloud_threshold)
    IN IF filtered = {}
       THEN {StrategyError("empty_collection")}
       ELSE {Composite({s \in filtered : sensing_date(s) = sensing_date(best_image)},
                       "mosaic", {})
             : best_image \in LeastCloudy(filtered)}

\* _mask_scl: SCL 1, 3, 9 and 10 are masked
mask_scl(result) ==
    IF result.ok
    THEN [result EXCEPT !.masked_scl = {1, 3, 9, 10}]
    ELSE result

\* best_date_masked_mosaic: _mask_scl(best_date_mosaic(collection, context))
best_date_masked_mosaic(collection, cloud_threshold) ==
    {mask_scl(r) : r \in best_date_mosaic(collection, cloud_threshold)}

\* faulty variant: the scenes of a tile are not sorted by cloud percentage
\* before first()
best_available_per_tile_mosaic_unsorted(collection, cloud_threshold) ==
    LET filtered == filter_cloud_threshold(collection, cloud_threshold)
        tiles == {s.tile : s \in filtered}
        tile_collection(tile_id) == {s \in filtered : s.tile = tile_id}
        winners == {w \in [tiles -> filtered] :
                        \A t \in tiles : w[t] \in tile_collection(t)}
    IN {Composite({w[t] : t \in tiles}, "mosaic", {}) : w \in winners}

\* best_available_per_tile_mosaic: for each distinct MGRS_TILE of the
\* filtered collection, the first scene of the tile by cloud percentage;
\* the winners are mosaicked (no scene at all gives an empty mosaic)
best_available_per_tile_mosaic(collection, cloud_threshold) ==
    LET filtered == filter_cloud_threshold(collection, cloud_threshold)
        tiles == {s.tile : s \in filtered}
        tile_collection(tile_id) == {s \in filtered : s.tile = tile_id}
        winners == {w \in [tiles -> filtered] :
                        \A t \in tiles : w[t] \in LeastCloudy(tile_collection(t))}
    IN {Composite({w[t] : t \in tiles}, "mosaic", {}) : w \in winners}

\* _mask_scl_light: SCL 1, 3, 9 and 10 are masked
mask_scl_light(result) == [result EXCEPT !.masked_scl = {1, 3, 9, 10}]

\* cloud_masked_light_mosaic: every scene masked, then qualityMosaic on the
\* quality band; cloud_threshold is not read
cloud_masked_light_mosaic(collection, cloud_threshold) ==
    {mask_scl_light(Composite(collection, "qualityMosaic", {}))}

\* ---------------------------------------------- apply_mosaic_strategy
\* class MosaicStrategy(str, Enum): the members' values
StrategyNames == {"best_date_mosaic", "best_date_masked_mosaic",
                  "best_available_per_tile_mosaic", "cloud_masked_light_mosaic"}

\* a strategy argument: a MosaicStrategy member or a raw string
Member(value) == [enum |-> TRUE, v |-> value]
RawString(text) == [enum |-> FALSE, v |-> text]
StrategyArguments ==
    {Member(n) : n \in StrategyNames} \cup
    {RawString(n) : n \in StrategyNames} \cup
    {RawString("BEST_DATE_MOSAIC"), RawString("scene_mosaic_cloud_sorted")}

\* if isinstance(strategy, MosaicStrategy): strategy = strategy.value
strategy_key(strategy) == strategy.v

\* faulty variant: an unknown name falls back to best_date_mosaic
lookup_strategy_default(key) ==
    IF key \in StrategyNames THEN <<key>> ELSE <<"best_date_mosaic">>

\* strategies.get(strategy): the function registered under the name, if any
lookup_strategy(key) ==
    IF key \in StrategyNames THEN <<key>> ELSE <<>>

\* func(collection, context)
run_strategy(name, collection, cloud_threshold) ==
    CASE name = "best_date_mosaic" ->
            best_date_mosaic(collection, cloud_threshold)
      [] name = "best_date_masked_mosaic" ->
            best_date_masked_mosaic(collection, cloud_threshold)
      [] name = "best_available_per_tile_mosaic" ->
            best_available_per_tile_mosaic(collection, cloud_threshold)
      [] name = "cloud_masked_light_mosaic" ->
            cloud_masked_light_mosaic(collection, cloud_threshold)

\* the collection a strategy composites from: `filtered` in best_date_mosaic
\* (and so in best_date_masked_mosaic) and in best_available_per_tile_mosaic,
\* the collection itself in cloud_masked_light_mosaic
strategy_filtered(name, collection, cloud_threshold) ==
    IF name = "cloud_masked_light_mosaic"
    THEN collection
    ELSE filter_cloud_threshold(collection, cloud_threshold)

MosaicIdle ==
    /\ ms_pc = "idle"
    /\ ms_call = [collection |-> {}, strategy |-> RawString(""),
                  cloud_threshold |-> NoThreshold]
    /\ ms_dispatched = <<>>
    /\ ms_filtered = {}
    /\ ms_result = StrategyError("none")

\* one call of apply_mosaic_strategy(collection, strategy, context)
ApplyMosaicStrategy(collection, strategy, cloud_threshold) ==
    LET func == lookup_strategy(strategy_key(strategy))
    IN /\ ms_call' = [collection |-> collection, strategy |-> strategy,
                      cloud_threshold |-> cloud_threshold]
       /\ ms_dispatched' = func
       /\ IF func = <<>>
          THEN /\ ms_filtered' = {}
               /\ ms_result' = StrategyError("unknown_strategy")
          ELSE /\ ms_filtered' = strategy_filtered(func[1], collection, cloud_threshold)
               /\ \E result \in run_strategy(func[1], collection, cloud_threshold) :
                    ms_result' = result
       /\ ms_pc' = "done"
       /\ MosaicOnly

\* The components share no state and a call leaves none behind, so a
\* behaviour makes one call of apply_mosaic_strategy or uses one
\* PostFireAssessment object.
CallApplyMosaicStrategy ==
    /\ ms_pc = "idle"
    /\ pfa_pc = "new"
    /\ \E collection \in Collections, strategy \in StrategyArguments,
          cloud_threshold \in CloudThresholds :
            ApplyMosaicStrategy(collection, strategy, cloud_threshold)

\* ================================================== PostFireAssessment
CLOUD_THRESHOLD == 100
DAYS_BEFORE_AFTER == 30

\* Dates are days counted from 2024-09-01 (ISO date strings of one format
\* order as their days do).  The scenes are of days 4 and 11.
AssessmentDates == {3, 5, 11, 13}
\* the GeoJSON file: readable with a geometry, absent, or without a
\* usable first feature
GeoJsonFiles == {"valid", "no_file", "bad_geometry"}

\* validate_geojson_path(geojson_path); validate_date only sees well-formed
\* dates here and validate_deliverables a valid list, so neither raises
validate_geojson_path(geojson) == geojson # "no_file"

\* if start_date > end_date: raise ValueError(...)
date_order_rejected(start_date, end_date) == start_date > end_date

NoMosaic == StrategyError("none")
\* images = {}
NoImages == << >>

AssessmentIdle ==
    /\ pfa_pc = "new"
    /\ pfa_args = [geojson |-> "", start_date |-> 0, end_date |-> 0,
                   deliverables |-> <<>>]
    /\ gee_initialized = FALSE
    /\ roi_loaded = FALSE
    /\ pfa_error = "none"
    /\ gee_catalogue = {}
    /\ full_collection = {}
    /\ before_collection = {}
    /\ after_collection = {}
    /\ before_mosaic = NoMosaic
    /\ after_mosaic = NoMosaic
    /\ gee_downloads_ok = TRUE
    /\ images = NoImages

\* PostFireAssessment.__init__: the validators, the date-order check, then
\* GEEClient() and load_geojson, which raises on a bad geometry
Construct(geojson, start_date, end_date, deliverables) ==
    /\ pfa_args' = [geojson |-> geojson, start_date |-> start_date,
                    end_date |-> end_date, deliverables |-> deliverables]
    /\ IF ~validate_geojson_path(geojson)
       THEN /\ pfa_pc' = "raised"
            /\ pfa_error' = "geojson_path"
            /\ UNCHANGED <<gee_initialized, roi_loaded>>
       ELSE IF date_order_rejected(start_date, end_date)
       THEN /\ pfa_pc' = "raised"
            /\ pfa_error' = "date_range"
            /\ UNCHANGED <<gee_initialized, roi_loaded>>
       ELSE IF geojson = "bad_geometry"
       THEN /\ gee_initialized' = TRUE
            /\ pfa_pc' = "raised"
            /\ pfa_error' = "geometry"
            /\ UNCHANGED roi_loaded
       ELSE /\ gee_initialized' = TRUE
            /\ roi_loaded' = TRUE
            /\ pfa_pc' = "constructed"
            /\ pfa_error' = "none"
    /\ UNCHANGED <<gee_catalogue, full_collection, before_collection,
                   after_collection, before_mosaic, after_mosaic,
                   gee_downloads_ok, images>>
    /\ AssessmentOnly

\* PostFireAssessment(geojson_path, start_date, end_date): deliverables is
\* None and self.deliverables is []
CallConstruct ==
    /\ pfa_pc = "new"
    /\ ms_pc = "idle"
    /\ \E geojson \in GeoJsonFiles, start_date \in AssessmentDates,
          end_date \in AssessmentDates :
            Construct(geojson, start_date, end_date, <<>>)

\* _load_full_collection: the scenes of the dataset that intersect the ROI
\* (the catalogue), with CLOUDY_PIXEL_PERCENTAGE < CLOUD_THRESHOLD
load_full_collection(catalogue) ==
    {s \in catalogue : s.cloud < CLOUD_THRESHOLD}

\* compute_fire_time_windows(start_date, end_date, buffer_days):
\* <<before_start, before_end, after_start, after_end>>
compute_fire_time_windows(start_date, end_date, buffer_days) ==
    <<start_date - buffer_days, start_date + 1,
      end_date, end_date + buffer_days + 1>>

\* the last day (counted from 2024-09-01) and the largest buffer_days of
\* the calls of compute_fire_time_windows
MaxDay == 6
MaxBufferDays == 3

TimeWindowsIdle ==
    /\ tw_pc = "idle"
    /\ tw_args = [start_date |-> 0, end_date |-> 0, buffer_days |-> 0]
    /\ tw_windows = <<>>

\* one call of compute_fire_time_windows(start_date, end_date, buffer_days)
ComputeFireTimeWindows(start_date, end_date, buffer_days) ==
    /\ tw_args' = [start_date |-> start_date, end_date |-> end_date,
                   buffer_days |-> buffer_days]
    /\ tw_windows' = compute_fire_time_windows(start_date, end_date, buffer_days)
    /\ tw_pc' = "done"
    /\ TimeWindowsOnly

\* the calls with dates that PostFireAssessment's date-order check lets
\* through, and a buffer of no less than zero days
CallComputeFireTimeWindows ==
    /\ tw_pc = "idle"
    /\ \E start_date \in 0..MaxDay, end_date \in 0..MaxDay,
          buffer_days \in 0..MaxBufferDays :
            /\ ~date_order_rejected(start_date, end_date)
            /\ ComputeFireTimeWindows(start_date, end_date, buffer_days)

\* expand_dates(start_date, end_date, DAYS_BEFORE_AFTER)
expand_dates(start_date, end_date, buffer_days) ==
    compute_fire_time_windows(start_date, end_date, buffer_days)

\* ensure_not_empty(collection, start, end): raises when no scene is left
ensure_not_empty(collection) == collection # {}

\* _build_mosaic_with_indexes: collection.mosaic() plus the ndvi and nbr bands
build_mosaic_with_indexes(collection) == Composite(collection, "mosaic", {})

\* faulty variant: the window is composited without ensure_not_empty
build_window_unchecked(full, start, end) ==
    LET collection == filterDate(full, start, end)
    IN [ok |-> TRUE, collection |-> collection,
        mosaic |-> build_mosaic_with_indexes(collection)]

\* collection = full_collection.filterDate(start, end)
\* ensure_not_empty(collection, start, end)
\* mosaic = self._build_mosaic_with_indexes(collection)
build_window(full, start, end) ==
    LET collection == filterDate(full, start, end)
    IN IF ensure_not_empty(collection)
       THEN [ok |-> TRUE, collection |-> collection,
             mosaic |-> build_mosaic_with_indexes(collection)]
       ELSE [ok |-> FALSE, collection |-> collection, mosaic |-> NoMosaic]

\* ---------------------------------------------------- deliverables
\* class Deliverable(Enum): the members' values
DeliverableNames == {"rgb_pre_fire", "rgb_post_fire", "ndvi_pre_fire",
                     "ndvi_post_fire", "rbr", "severity_visual"}

\* self._deliverable_registry.get(d): the generator registered for d, if any
registry_get(d) ==
    IF d \in {"rgb_pre_fire", "rgb_post_fire", "ndvi_pre_fire",
              "ndvi_post_fire", "rbr"}
    THEN <<d>>
    ELSE <<>>

\* "pre" in d.value
has_pre(d) == d \in {"rgb_pre_fire", "ndvi_pre_fire"}

\* a deliverable object; "data" is described by the bands it holds and the
\* image they were downloaded from
Artifact(content_type, bands, image) ==
    [content_type |-> content_type, data |-> [bands |-> bands, of |-> image]]
Generated(artifact) == [ok |-> TRUE, error |-> "none", artifact |-> artifact]
NotGenerated(error) ==
    [ok |-> FALSE, error |-> error, artifact |-> Artifact("", <<>>, NoMosaic)]

\* _generate_rgb(mosaic, prefix): B4, B3 and B2 downloaded one by one and
\* merged.  How each download picks its scale is GenerateRgb's matter; here
\* the provider either serves every download or fails the first one.
generate_rgb(mosaic, downloads_ok) ==
    IF downloads_ok
    THEN Generated(Artifact("image/tiff", <<"B4_refl", "B3_refl", "B2_refl">>, mosaic))
    ELSE NotGenerated("download")

\* _generate_ndvi(mosaic, filename)
generate_ndvi(mosaic, downloads_ok) ==
    IF downloads_ok
    THEN Generated(Artifact("image/tiff", <<"ndvi">>, mosaic))
    ELSE NotGenerated("download")

\* gen_fn(mosaic) for the generators of the pre- and post-fire deliverables
call_generator(name, mosaic, downloads_ok) ==
    IF name \in {"rgb_pre_fire", "rgb_post_fire"}
    THEN generate_rgb(mosaic, downloads_ok)
    ELSE generate_ndvi(mosaic, downloads_ok)

Delivered(mapping) == [ok |-> TRUE, error |-> "none", images |-> mapping]
NotDelivered(error) == [ok |-> FALSE, error |-> error, images |-> NoImages]

\* for d in self.deliverables: ... (run_analysis).  For Deliverable.RBR the
\* dict returned by _generate_rbr is iterated: `out` is a key of it, a
\* string, and out["filename"] raises TypeError.  A deliverable without a
\* registry entry has gen_fn None, and calling it raises TypeError.  An
\* exception leaves run_analysis, and the mapping built so far is lost.
RECURSIVE generate_deliverables(_, _, _, _, _)
generate_deliverables(ds, mapping, before, after, downloads_ok) ==
    IF ds = <<>>
    THEN Delivered(mapping)
    ELSE LET d == Head(ds)
             gen_fn == registry_get(d)
         IN IF d = "rbr"
            THEN IF downloads_ok
                 THEN NotDelivered("type_error")
                 ELSE NotDelivered("download")
            ELSE IF gen_fn = <<>>
            THEN NotDelivered("type_error")
            ELSE LET mosaic == IF has_pre(d) THEN before ELSE after
                     out == call_generator(gen_fn[1], mosaic, downloads_ok)
                 IN IF out.ok
                    THEN generate_deliverables(
                            Tail(ds), (d :> out.artifact) @@ mapping,
                            before, after, downloads_ok)
                    ELSE NotDelivered(out.error)

\* run_analysis: the collection, the two windows and their composites (an
\* empty window aborts the run), then the deliverables.  The RBR, severity
\* and area computations in between are those of the severity pipeline.
RunAnalysis(catalogue, downloads_ok) ==
    LET full == load_full_collection(catalogue)
        w == expand_dates(pfa_args.start_date, pfa_args.end_date, DAYS_BEFORE_AFTER)
        before == build_window(full, w[1], w[2])
        after == build_window(full, w[3], w[4])
        delivery == generate_deliverables(pfa_args.deliverables, NoImages,
                                          before.mosaic, after.mosaic,
                                          downloads_ok)
    IN /\ gee_catalogue' = catalogue
       /\ gee_downloads_ok' = downloads_ok
       /\ full_collection' = full
       /\ before_collection' = before.collection
       /\ before_mosaic' = before.mosaic
       /\ IF ~before.ok
          THEN /\ pfa_pc' = "aborted"
               /\ pfa_error' = "empty_before"
               /\ UNCHANGED <<after_collection, after_mosaic, images>>
          ELSE IF ~after.ok
          THEN /\ after_collection' = after.collection
               /\ after_mosaic' = after.mosaic
               /\ pfa_pc' = "aborted"
               /\ pfa_error' = "empty_after"
               /\ UNCHANGED images
          ELSE /\ after_collection' = after.collection
               /\ after_mosaic' = after.mosaic
               /\ images' = delivery.images
               /\ pfa_pc' = IF delivery.ok THEN "analysed" ELSE "aborted"
               /\ pfa_error' = delivery.error
       /\ UNCHANGED <<pfa_args, gee_initialized, roi_loaded>>
       /\ AssessmentOnly

\* no deliverable is requested here, so no download is made
CallRunAnalysis ==
    /\ pfa_pc = "constructed"
    /\ \E catalogue \in Collections : RunAnalysis(catalogue, TRUE)

\* The deliverables of a run.  The requested list is any subset of the
\* deliverable names, in the order of the Deliverable enumeration.
DeliverableOrder == <<"rgb_pre_fire", "rgb_post_fire", "ndvi_pre_fire",
                      "ndvi_post_fire", "rbr", "severity_visual">>
RECURSIVE Sublist(_, _)
Sublist(list, keep) ==
    IF list = <<>> THEN <<>>
    ELSE IF Head(list) \in keep
         THEN <<Head(list)>> \o Sublist(Tail(list), keep)
         ELSE Sublist(Tail(list), keep)
DeliverableLists == {Sublist(DeliverableOrder, keep) : keep \in SUBSET DeliverableNames}

\* the catalogues of the runs with deliverables: the dataset holds, over the
\* ROI, any of a scene of 2024-09-05 and a scene of 2024-09-12
DeliverableCatalogues ==
    SUBSET {[ts |-> Timestamp(4, 10), cloud |-> 10, tile |-> "A"],
            [ts |-> Timestamp(11, 13), cloud |-> 15, tile |-> "B"]}

CallConstructWithDeliverables ==
    /\ pfa_pc = "new"
    /\ ms_pc = "idle"
    /\ \E start_date \in AssessmentDates, end_date \in AssessmentDates,
          deliverables \in DeliverableLists :
            Construct("valid", start_date, end_date, deliverables)

CallRunAnalysisWithDeliverables ==
    /\ pfa_pc = "constructed"
    /\ \E catalogue \in DeliverableCatalogues, downloads_ok \in BOOLEAN :
            RunAnalysis(catalogue, downloads_ok)

\* ---------------------------------------------------- severity actions
ComputeRbr ==
    /\ sev_pc = "start"
    /\ rbr_img' = compute_rbr(before_nbr, after_nbr)
    /\ sev_pc' = "rbr"
    /\ UNCHANGED <<before_nbr, after_nbr, severity_img, reduce_reply, area_stats>>
    /\ SeverityOnly

ClassifyRbrSeverity ==
    /\ sev_pc = "rbr"
    /\ severity_img' = classify_rbr_severity(rbr_img)
    /\ sev_pc' = "classified"
    /\ UNCHANGED <<before_nbr, after_nbr, rbr_img, reduce_reply, area_stats>>
    /\ SeverityOnly

ComputeAreaBySeverity ==
    /\ sev_pc = "classified"
    /\ \E reply \in ReduceReplies(severity_img) :
        /\ reduce_reply' = reply
        /\ area_stats' = compute_area_by_severity(reply)
    /\ sev_pc' = "aggregated"
    /\ UNCHANGED <<before_nbr, after_nbr, rbr_img, severity_img>>
    /\ SeverityOnly

\* ===================================================== specifications
InitSeverity ==
    /\ DownloadIdle
    /\ MergeIdle
    /\ RgbIdle
    /\ TimeWindowsIdle
    /\ MosaicIdle
    /\ AssessmentIdle
    /\ severity_img = NoImage
    /\ reduce_reply = NoReply
    /\ area_stats = NoReply
    /\ \/ /\ sev_pc = "start"
          /\ before_nbr \in [Pixels -> NbrInputs]
          /\ after_nbr \in [Pixels -> NbrInputs]
          /\ rbr_img = NoImage
       \/ /\ sev_pc = "rbr"
          /\ before_nbr = NoImage
          /\ after_nbr = NoImage
          /\ rbr_img \in [Pixels -> RbrInputs]

NextSeverity == ComputeRbr \/ ClassifyRbrSeverity \/ ComputeAreaBySeverity

SpecSeverity == InitSeverity /\ [][NextSeverity]_vars

AllIdle ==
    /\ SeverityIdle
    /\ DownloadIdle
    /\ MergeIdle
    /\ RgbIdle
    /\ MosaicIdle
    /\ AssessmentIdle
    /\ TimeWindowsIdle

InitDownload == AllIdle

NextDownload == CallDownloadSingleBand

SpecDownload == InitDownload /\ [][NextDownload]_vars

InitMerge == AllIdle

NextMerge == MergeBands

SpecMerge == InitMerge /\ [][NextMerge]_vars

\* the RGB deliverable: three band downloads and their merge
InitRgb == AllIdle

NextRgb == CallGenerateRgb

SpecRgb == InitRgb /\ [][NextRgb]_vars

\* compositing: the mosaic strategies and the assessment's two windows
InitCompositing == AllIdle

NextCompositing == CallApplyMosaicStrategy \/ CallConstruct \/ CallRunAnalysis

SpecCompositing == InitCompositing /\ [][NextCompositing]_vars

\* the before and after windows of a fire
InitTimeWindows == AllIdle

NextTimeWindows == CallComputeFireTimeWindows

SpecTimeWindows == InitTimeWindows /\ [][NextTimeWindows]_vars

\* the deliverables of run_analysis
InitDeliverables == AllIdle

NextDeliverables == CallConstructWithDeliverables \/ CallRunAnalysisWithDeliverables

SpecDeliverables == InitDeliverables /\ [][NextDeliverables]_vars

\* ====================================================== claims C1 - C3
Classified == sev_pc \in {"classified", "aggregated"}

\* C1: every RBR value gets exactly one class in 0..4, by lower-inclusive,
\* upper-exclusive intervals: 0 iff rbr < 0.10, 1 iff 0.10 <= rbr < 0.27,
\* 2 iff 0.27 <= rbr < 0.44, 3 iff 0.44 <= rbr < 0.66, 4 iff rbr >= 0.66.
C1_ClassifyIntervals ==
    Classified =>
        \A p \in Pixels :
            rbr_img[p].valid =>
                LET x == rbr_img[p].num * 100
                    d == rbr_img[p].den
                    k == severity_img[p].cls
                IN /\ severity_img[p].valid
                   /\ k \in 0..4
                   /\ (k = 0) <=> (x < 10 * d)
                   /\ (k = 1) <=> (10 * d <= x /\ x < 27 * d)
                   /\ (k = 2) <=> (27 * d <= x /\ x < 44 * d)
                   /\ (k = 3) <=> (44 * d <= x /\ x < 66 * d)
                   /\ (k = 4) <=> (66 * d <= x)

\* a raster with pixels exactly at the thresholds 0.27 and 0.66 was classified
C1_Witness ==
    /\ Classified
    /\ \E p, q \in Pixels :
        /\ rbr_img[p] = Rbr(270, 1000) /\ severity_img[p] = Class(2)
        /\ rbr_img[q] = Rbr(660, 1000) /\ severity_img[q] = Class(4)

\* C2 as stated: before NBR 0.5 and after NBR 0.1 give class 2 (Moderate).
C2_Original ==
    Classified =>
        \A p \in Pixels :
            (before_nbr[p] = Nbr(500) /\ after_nbr[p] = Nbr(100))
                => severity_img[p] = Class(2)

\* C2 amended: before NBR 0.5 and after NBR 0.1 give
\* rbr = (0.5 - 0.1) / (0.5 + 1.001) = 400/1501 = 0.2665 (below 0.27),
\* and that value is classified as class 1 (Low).
C2_EndToEndLow ==
    Classified =>
        \A p \in Pixels :
            (before_nbr[p] = Nbr(500) /\ after_nbr[p] = Nbr(100)) =>
                /\ rbr_img[p].valid
                /\ rbr_img[p].num * 1501 = 400 * rbr_img[p].den
                /\ 2664 * rbr_img[p].den < rbr_img[p].num * 10000
                /\ rbr_img[p].num * 10000 < 2666 * rbr_img[p].den
                /\ severity_img[p] = Class(1)

C2_Witness ==
    /\ Classified
    /\ \E p \in Pixels :
        /\ before_nbr[p] = Nbr(500)
        /\ after_nbr[p] = Nbr(100)
        /\ severity_img[p].valid

MaskedPixels(sev) == {p \in Pixels : ~sev[p].valid}
RoiAreaM2 == NumPixels * 100

\* C3: the area report has exactly the keys 0..4, every value is >= 0 (0 for
\* a class with no pixel, also when the reply has None or no key for it),
\* the values sum to at most the ROI area, and to the ROI area only if no
\* ROI pixel is masked.
C3_AreaReport ==
    sev_pc = "aggregated" =>
        /\ DOMAIN area_stats = 0..4
        /\ \A c \in 0..4 :
            /\ area_stats[c] \in Nat
            /\ ~ClassPresent(severity_img, c) => area_stats[c] = 0
        /\ SumOver(0..4, area_stats) <= RoiAreaM2
        /\ SumOver(0..4, area_stats) = RoiAreaM2 => MaskedPixels(severity_img) = {}

\* a report computed from a reply with a None sum and an absent key, for a
\* raster with one masked pixel and one class-2 pixel
C3_Witness ==
    /\ sev_pc = "aggregated"
    /\ \E c, d \in 0..4 : reduce_reply[c] = Null /\ reduce_reply[d] = Missing
    /\ MaskedPixels(severity_img) # {}
    /\ area_stats[2] > 0

\* ============================================================ claim C4
Downloads == {i \in DOMAIN dl_requests : dl_requests[i].op = "download"}
CountQueries == {i \in DOMAIN dl_requests : dl_requests[i].op = "count"}

\* C4: the download is requested at 50 m exactly when the estimate of
\* pixel_count * 4 bytes exceeds 50 MiB and the requested scale is 10, and
\* at the requested scale in every other case; the estimate is made once,
\* at the requested scale, and at most one download is requested
\* (20,000,000 pixels at scale 10 give 50; 1,000,000 give 10).
C4_ScaleSelection ==
    dl_pc = "done" =>
        /\ CountQueries = {1}
        /\ dl_requests[1].scale = dl_call.scale
        /\ Cardinality(Downloads) <= 1
        /\ Downloads # {} <=> dl_count.known
        /\ \A i \in Downloads :
            LET over == dl_count.n * 4 > 50 * 1024 * 1024 /\ dl_call.scale = 10
            IN /\ over => dl_requests[i].scale = 50
               /\ ~over => dl_requests[i].scale = dl_call.scale
               /\ (dl_requests[i].scale # dl_call.scale) <=> over
               /\ (dl_count.n = 20000000 /\ dl_call.scale = 10) => dl_requests[i].scale = 50
               /\ (dl_count.n = 1000000 /\ dl_call.scale = 10) => dl_requests[i].scale = 10

\* a 10 m request downgraded to 50 m for an estimate one pixel over the budget
C4_Witness ==
    /\ dl_pc = "done"
    /\ dl_call.scale = 10
    /\ dl_count = Count(13107201)
    /\ dl_requests[2] = DownloadRequest(dl_call.band, 50)
    /\ dl_result = "bytes"

\* ====================================================== claims C5 - C6
Decodable == \A i \in DOMAIN mg_input : mg_input[i].tiff.ok

SameGrid(a, b) ==
    /\ a.shape = b.shape
    /\ a.transform = b.transform
    /\ a.crs = b.crs

\* C5: for N >= 1 decodable single-band rasters on one grid, the output has
\* N bands, band i holds the pixels of the i-th item in iteration order
\* (B4, B3, B2 gives R, G, B), and the georeferencing is the first item's.
C5_OrderPreserving ==
    (/\ mg_pc = "done"
     /\ Len(mg_input) >= 1
     /\ Decodable
     /\ \A i, j \in DOMAIN mg_input : SameGrid(mg_input[i].tiff, mg_input[j].tiff))
    => /\ mg_result.ok
       /\ mg_result.profile.count = Len(mg_input)
       /\ Len(mg_result.bands) = Len(mg_input)
       /\ \A i \in DOMAIN mg_input :
            /\ mg_result.bands[i].data = mg_input[i].name
            /\ ~mg_result.bands[i].resampled
       /\ mg_result.profile.shape = mg_input[1].tiff.shape
       /\ mg_result.profile.transform = mg_input[1].tiff.transform
       /\ mg_result.profile.crs = mg_input[1].tiff.crs

\* B4, B3, B2 on one grid merged into a three-band raster in that order
C5_Witness ==
    /\ mg_pc = "done"
    /\ Len(mg_input) = 3
    /\ <<mg_input[1].name, mg_input[2].name, mg_input[3].name>>
         = <<"B4_refl", "B3_refl", "B2_refl">>
    /\ \A i, j \in DOMAIN mg_input : SameGrid(mg_input[i].tiff, mg_input[j].tiff)
    /\ mg_result.ok
    /\ <<mg_result.bands[1].data, mg_result.bands[2].data, mg_result.bands[3].data>>
         = <<"B4_refl", "B3_refl", "B2_refl">>

\* C6: whenever two of the (decodable) inputs differ in pixel dimensions,
\* transform or coordinate reference system, merge_bands fails with a
\* geometry-mismatch error and returns no merged raster.
C6_GeometryMismatchFails ==
    (/\ mg_pc = "done"
     /\ Decodable
     /\ \E i, j \in DOMAIN mg_input : ~SameGrid(mg_input[i].tiff, mg_input[j].tiff))
    => ~mg_result.ok

\* ===================================================== claims C7 - C10
DayOf(s) == s.ts \div 24
StrategyDone(name) == ms_pc = "done" /\ ms_dispatched = <<name>>
PassThreshold(collection, cloud_threshold) ==
    {s \in collection : cloud_threshold.set => s.cloud <= cloud_threshold.v}

\* the scenes of the day of b among the scenes of S
SameDay(S, b) == {s \in S : DayOf(s) = DayOf(b)}
Lowest(S) == {b \in S : \A t \in S : b.cloud <= t.cloud}

\* C7 as stated: for any non-empty collection, best_date_mosaic composites
\* exactly the scenes (of the collection) of the date of a scene with the
\* globally lowest cloud percentage, whatever their tile and cloud percentage.
C7_Original ==
    (StrategyDone("best_date_mosaic") /\ ms_call.collection # {}) =>
        /\ ms_result.ok
        /\ \E b \in Lowest(ms_call.collection) :
                ms_result.scenes = SameDay(ms_call.collection, b)

\* C7 amended: with F the scenes of the collection that pass cloud_threshold
\* (all of them when it is None) and F non-empty, best_date_mosaic composites
\* exactly the scenes of F of the date of a scene with the lowest cloud
\* percentage in F, whatever their tile and cloud percentage.
C7_BestDateOfFiltered ==
    LET F == PassThreshold(ms_call.collection, ms_call.cloud_threshold)
    IN (StrategyDone("best_date_mosaic") /\ F # {}) =>
        /\ ms_result.ok
        /\ \E b \in Lowest(F) : ms_result.scenes = SameDay(F, b)

\* 2024-09-05 cloud 80, 2024-09-12 cloud 10 tile A, 2024-09-12 cloud 15
\* tile B: the composite is made of the two scenes of 2024-09-12
C7_Witness ==
    LET a == [ts |-> 11 * 24 + 10, cloud |-> 10, tile |-> "A"]
        b == [ts |-> 11 * 24 + 13, cloud |-> 15, tile |-> "B"]
        c == [ts |-> 4 * 24 + 10, cloud |-> 80, tile |-> "A"]
    IN /\ StrategyDone("best_date_mosaic")
       /\ ms_call.collection = {a, b, c}
       /\ ms_result.ok
       /\ ms_result.scenes = {a, b}

WindowsDone == pfa_pc \in {"analysed", "aborted"}

C8_WitnessStrategy ==
    /\ StrategyDone("best_date_mosaic")
    /\ ms_call.collection # {}
    /\ ms_call.cloud_threshold.set
    /\ ms_result.error = "empty_collection"

\* C9: a MosaicStrategy member or its raw string value runs exactly the
\* strategy of that name; any other identifier fails with the
\* unknown-strategy error before any strategy function is called.
C9_Dispatch ==
    ms_pc = "done" =>
        LET name == ms_call.strategy.v
            known == name \in {"best_date_mosaic", "best_date_masked_mosaic",
                               "best_available_per_tile_mosaic",
                               "cloud_masked_light_mosaic"}
        IN /\ known => ms_dispatched = <<name>>
           /\ known => ms_result.error # "unknown_strategy"
           /\ ~known =>
                /\ ms_dispatched = <<>>
                /\ ~ms_result.ok
                /\ ms_result.error = "unknown_strategy"
           /\ (known /\ ms_result.ok) =>
                /\ ms_result.method = "qualityMosaic"
                     <=> name = "cloud_masked_light_mosaic"
                /\ ms_result.masked_scl # {}
                     <=> name \in {"best_date_masked_mosaic",
                                   "cloud_masked_light_mosaic"}

\* an unknown raw string rejected, nothing dispatched
C9_Witness ==
    /\ ms_pc = "done"
    /\ ms_call.strategy = RawString("scene_mosaic_cloud_sorted")
    /\ ms_call.collection # {}
    /\ ms_dispatched = <<>>
    /\ ms_result.error = "unknown_strategy"

\* a member dispatched to the strategy of its value
C9_WitnessMember ==
    /\ ms_pc = "done"
    /\ ms_call.strategy = Member("best_date_masked_mosaic")
    /\ ms_dispatched = <<"best_date_masked_mosaic">>
    /\ ms_result.ok

\* C10: constructing with a start_date that is not strictly earlier than
\* end_date (equal dates included) raises the invalid-date-range error, and
\* then the GEE client is not initialized and the ROI is not loaded.
C10_DateRangeFailsFast ==
    (/\ pfa_pc # "new"
     /\ pfa_args.geojson = "valid"
     /\ ~(pfa_args.start_date < pfa_args.end_date))
    => /\ pfa_pc = "raised"
       /\ pfa_error = "date_range"
       /\ ~gee_initialized
       /\ ~roi_loaded

\* ==================================================== claims C11 - C16
\* a scene at or below the threshold; no threshold keeps every scene
AtOrBelow(s, cloud_threshold) ==
    cloud_threshold.set => s.cloud <= cloud_threshold.v

\* the strategies' part of C11: best_date_mosaic and
\* best_available_per_tile_mosaic work on exactly the scenes at or below
\* cloud_threshold
StrategiesKeepAtOrBelow ==
    (StrategyDone("best_date_mosaic")
        \/ StrategyDone("best_available_per_tile_mosaic")) =>
        \A s \in ms_call.collection :
            s \in ms_filtered <=> AtOrBelow(s, ms_call.cloud_threshold)

\* C11: cloud-threshold filtering keeps a scene if and only if its
\* CLOUDY_PIXEL_PERCENTAGE is less than or equal to the threshold (a scene
\* exactly at the threshold is kept), and no threshold drops nothing; this
\* holds for best_date_mosaic, for best_available_per_tile_mosaic and for the
\* collection _load_full_collection loads with CLOUD_THRESHOLD.
C11_KeepAtOrBelowThreshold ==
    /\ StrategiesKeepAtOrBelow
    /\ WindowsDone =>
        \A s \in gee_catalogue :
            s \in full_collection <=> AtOrBelow(s, Threshold(CLOUD_THRESHOLD))

\* a composite of at least one scene: there are pixels to mask
HasPixels == ms_result.ok /\ ms_result.scenes # {}

\* C12: cloud_masked_light_mosaic masks a pixel if and only if its SCL
\* category is 3, 9 or 10, so it does not exclude SCL 1 (saturated or
\* defective); best_date_masked_mosaic masks a pixel if and only if its SCL
\* category is 1, 3, 9 or 10.
C12_MaskCategories ==
    /\ (StrategyDone("cloud_masked_light_mosaic") /\ HasPixels) =>
            ms_result.masked_scl = {3, 9, 10}
    /\ (StrategyDone("best_date_masked_mosaic") /\ HasPixels) =>
            ms_result.masked_scl = {1, 3, 9, 10}

\* the part of C12 about best_date_masked_mosaic alone
MaskedMosaicCategories ==
    (StrategyDone("best_date_masked_mosaic") /\ HasPixels) =>
        ms_result.masked_scl = {1, 3, 9, 10}

\* C13: best_available_per_tile_mosaic selects, for every distinct tile of
\* the threshold-filtered collection, exactly one scene, and that scene has
\* the minimum cloud percentage among the filtered scenes of its tile; the
\* composite is made of these winners only.  When several scenes of a tile
\* tie on the minimum, the winner is one of the tied scenes.
C13_PerTileWinners ==
    StrategyDone("best_available_per_tile_mosaic") =>
        LET F == PassThreshold(ms_call.collection, ms_call.cloud_threshold)
            OfTile(S, t) == {s \in S : s.tile = t}
        IN /\ ms_result.ok
           /\ ms_result.method = "mosaic"
           /\ ms_result.scenes \subseteq F
           /\ \A s \in ms_result.scenes : \E f \in F : f.tile = s.tile
           /\ \A t \in {f.tile : f \in F} :
                \E w \in Lowest(OfTile(F, t)) :
                    OfTile(ms_result.scenes, t) = {w}

\* tile A has two scenes tied at 10 % on different dates and a scene above
\* the threshold is dropped: the winners are the 2024-09-05 scene of tile A
\* and the 2024-09-12 scene of tile B
C13_Witness ==
    LET a1 == [ts |-> 4 * 24 + 10, cloud |-> 10, tile |-> "A"]
        a2 == [ts |-> 11 * 24 + 10, cloud |-> 10, tile |-> "A"]
        b == [ts |-> 11 * 24 + 13, cloud |-> 15, tile |-> "B"]
    IN /\ StrategyDone("best_available_per_tile_mosaic")
       /\ ms_call.collection = {a1, a2, b}
       /\ ms_call.cloud_threshold = Threshold(15)
       /\ ms_result.ok
       /\ ms_result.scenes = {a1, b}

\* a tile's cloudier scene loses and a scene above the threshold never wins
C13_WitnessThreshold ==
    LET a1 == [ts |-> 4 * 24 + 10, cloud |-> 15, tile |-> "A"]
        a2 == [ts |-> 11 * 24 + 10, cloud |-> 10, tile |-> "A"]
        b == [ts |-> 11 * 24 + 13, cloud |-> 80, tile |-> "B"]
    IN /\ StrategyDone("best_available_per_tile_mosaic")
       /\ ms_call.collection = {a1, a2, b}
       /\ ms_call.cloud_threshold = Threshold(15)
       /\ ms_result.scenes = {a2}

\* a run whose two windows have scenes and whose downloads are all served
RunServed ==
    /\ pfa_pc \in {"analysed", "aborted"}
    /\ pfa_args.start_date < pfa_args.end_date
    /\ before_collection # {}
    /\ after_collection # {}
    /\ gee_downloads_ok
Requested == {pfa_args.deliverables[i] : i \in DOMAIN pfa_args.deliverables}

\* the artifact of deliverable d is in the mapping, with a content type and
\* data; a pre-fire one is made from the before composite, a post-fire one
\* from the after composite
ArtifactPresent(d) ==
    /\ d \in DOMAIN images
    /\ images[d].content_type \in {"image/tiff", "image/jpeg"}
    /\ images[d].data.bands # <<>>
    /\ d \in {"rgb_pre_fire", "ndvi_pre_fire"} => images[d].data.of = before_mosaic
    /\ d \in {"rgb_post_fire", "ndvi_post_fire"} => images[d].data.of = after_mosaic

\* C14: for any requested subset of {rgb_pre_fire, rgb_post_fire,
\* ndvi_pre_fire, ndvi_post_fire, rbr, severity_visual}, when both windows
\* are non-empty and every download succeeds, run_analysis completes and its
\* images mapping holds one artifact (content_type and data) for each
\* requested deliverable, the pre-fire ones computed from the before
\* composite and the post-fire ones from the after composite.
C14_RequestedDeliverables ==
    RunServed =>
        /\ pfa_pc = "analysed"
        /\ \A d \in Requested : ArtifactPresent(d)

\* the part of C14 that holds: the requests without rbr and severity_visual
PrePostDeliverables ==
    (RunServed /\ Requested \cap {"rbr", "severity_visual"} = {}) =>
        /\ pfa_pc = "analysed"
        /\ DOMAIN images = Requested
        /\ \A d \in Requested : ArtifactPresent(d)

\* the four pre- and post-fire deliverables delivered, from two different
\* composites
PrePostDelivered ==
    /\ RunServed
    /\ Requested = {"rgb_pre_fire", "rgb_post_fire", "ndvi_pre_fire", "ndvi_post_fire"}
    /\ pfa_pc = "analysed"
    /\ before_mosaic # after_mosaic
    /\ images["ndvi_pre_fire"].data.of = before_mosaic

\* the downloads _generate_rgb requested, in order
RgbDownloads == SelectSeq(rgb_requests, LAMBDA r : r.op = "download")

\* the three downloads returned bytes and merge_bands was called on them
RgbMerged == rgb_pc = "done" /\ rgb_result.error # "download"

\* C15: within one RGB deliverable the three bands handed to merge_bands
\* were all downloaded at the same scale, whatever the per-band pixel-count
\* estimates (which may differ between bands): the three download_single_band
\* calls of _generate_rgb never choose 50 m for one band and 10 m for another.
C15_OneScalePerRgb ==
    RgbMerged =>
        \A i, j \in DOMAIN RgbDownloads :
            RgbDownloads[i].scale = RgbDownloads[j].scale

\* bands whose estimates are on one side of the limit are downloaded at one
\* scale and merged on the first band's grid
SameSideSameScale ==
    (/\ RgbMerged
     /\ \A a, b \in RgbBandNames :
            rgb_counts[a].n * 4 > 50 * 1024 * 1024
                <=> rgb_counts[b].n * 4 > 50 * 1024 * 1024)
    => \A i, j \in DOMAIN RgbDownloads :
            RgbDownloads[i].scale = RgbDownloads[j].scale

\* a window is the days d with start <= d < end (filterDate)
InWindow(d, start, end) == start <= d /\ d < end

\* C16: for every start_date <= end_date that PostFireAssessment accepts and
\* every buffer_days >= 0, compute_fire_time_windows returns
\* before_start < before_end <= after_start < after_end, so the before
\* window contains start_date, the after window contains end_date, and no
\* calendar day belongs to both windows.
C16_WindowsOrdered ==
    tw_pc = "done" =>
        LET before_start == tw_windows[1]
            before_end == tw_windows[2]
            after_start == tw_windows[3]
            after_end == tw_windows[4]
        IN /\ before_start < before_end
           /\ before_end <= after_start
           /\ after_start < after_end
           /\ InWindow(tw_args.start_date, before_start, before_end)
           /\ InWindow(tw_args.end_date, after_start, after_end)
           /\ \A d \in (0 - MaxBufferDays)..(MaxDay + MaxBufferDays + 1) :
                ~(InWindow(d, before_start, before_end)
                    /\ InWindow(d, after_start, after_end))

\* the part of C16 that holds: every start_date strictly before end_date
WindowsOrderedWhenEarlier ==
    (tw_pc = "done" /\ tw_args.start_date < tw_args.end_date) =>
        /\ tw_windows[1] < tw_windows[2]
        /\ tw_windows[2] <= tw_windows[3]
        /\ tw_windows[3] < tw_windows[4]
        /\ InWindow(tw_args.start_date, tw_windows[1], tw_windows[2])
        /\ InWindow(tw_args.end_date, tw_windows[3], tw_windows[4])
        /\ \A d \in (0 - MaxBufferDays)..(MaxDay + MaxBufferDays + 1) :
                ~(InWindow(d, tw_windows[1], tw_windows[2])
                    /\ InWindow(d, tw_windows[3], tw_windows[4]))

====
